---- MODULE Spec2Model ----
(***************************************************************************)
(* Challenge-room lifecycle of the skypad backend: the REST handlers of    *)
(* routes/challenges.js, the socket handlers and timers of socketServer.js *)
(* and the ChallengeRoom schema, over the ChallengeRoom collection, and    *)
(* the output normalisation of routes/problem.js.                          *)
(*                                                                         *)
(* Every handler is an async function.  It is cut at its awaits on the     *)
(* store: one action per stretch of code that ends with a store operation  *)
(* (findOne, save) or an emit after one, so that handlers interleave       *)
(* exactly at their store reads and writes.  A handler works on its own    *)
(* in-memory document (`doc`), loaded by findOne and never refreshed.      *)
(* room.save() sends the store only the paths the handler modified.        *)
(***************************************************************************)
EXTENDS Integers, Sequences, FiniteSets, TLC

\* ------------------------------------------------------------------ bounds
MaxRequests == 5      \* client requests (join, ready, submit) started in a run
MaxTicks == 1         \* clock advances in a run
MaxInFlight == 2      \* handlers and callbacks in flight at once
NumTests == 2         \* hidden test cases of the problem
Quantum == 500        \* smallest clock advance, in ms
MaxLen == 5           \* characters of a program output
MaxRuns == 2          \* POST /run requests served in a run
MaxHandlers == 2      \* run-code handlers of the editor server in flight at once
MaxCommands == 3      \* run-code and stop-execution events the editor server receives

\* ------------------------------------------------------------------ values
Users == {"u1", "u2", "u3"}
Hosts == {"u1"}                \* the users that create rooms
RoomIds == {"ABC-123"}      \* the room the clients join and play in
CandidateIds == {"ABC-123", "XYZ-789"}   \* the roomIds generateRoomId may draw
Creators == {"u1", "u2"}    \* the users that create rooms, where creation is examined
Guests == {"u3"}            \* the users that join the rooms created there
ProblemIds == {"P1"}
Null == "null"                 \* an unset ObjectId path
NoDate == 0 - 1                \* an unset Date / Number path

\* Problem collection: the document the room's problemId resolves to.
Problem == [p \in ProblemIds |-> [difficulty |-> "Easy", hiddenTestCases |-> NumTests]]

\* ------------------------------------------------------------------ state
VARIABLES
  ChallengeRoom,   \* the collection: roomId -> stored room document
  proc,            \* per user: the request handler in flight and its document
  sweep,           \* the timeout checker's interval callback
  creating,        \* per user: the create-room handler in flight, or its outcome
  timeouts,        \* the timeouts set by setLobbyTimer, in order: room, due time, state
  lobby,           \* the expireRoom callback of the lobby timer
  roomTimers,      \* the timer registry: roomId -> its entry's timeout
  emitted,         \* events broadcast to the room, in order
  rewards,         \* reward settlements made (awardMatchRewards/awardTieRewards)
  now,             \* the clock, ms
  ticks,           \* clock advances so far
  nreq,            \* client requests started so far
  response,        \* per user: the response to the user's last submit
  output,          \* a program output handed to the judge, as characters
  processed,       \* the results of preprocessOutput on it, applied in turn
  tempDir,         \* the files in TEMP_DIR of routes/problem.js
  uuids,           \* crypto.randomUUID() values drawn so far
  invocations,     \* the executeCode calls of the last POST /run, in order
  tmpdir,          \* editor server: the files in os.tmpdir()
  activeProcesses, \* editor server: socket.id -> the registered child process
  children,        \* editor server: the child processes spawned, in order
  runs,            \* editor server: the run-code handlers in flight
  connected        \* editor server: the sockets connected

vars == <<ChallengeRoom, creating, proc, sweep, timeouts, lobby, roomTimers, emitted, rewards,
          now, ticks, nreq, response, output, processed, tempDir, uuids, invocations,
          tmpdir, activeProcesses, children, runs, connected>>

\* The state of the editor server (server.js).
editorVars == <<tmpdir, activeProcesses, children, runs, connected>>

\* The state of the challenge rooms.
roomVars == <<ChallengeRoom, creating, proc, sweep, timeouts, lobby, roomTimers, emitted, rewards,
              response>>

\* The state of the code runner of routes/problem.js.
sandboxVars == <<tempDir, uuids, invocations>>

\* A document no handler holds.
NoDoc == [roomId |-> Null, problemId |-> Null, hostUserId |-> Null,
          opponentUserId |-> Null, status |-> "none", winnerId |-> Null,
          lobbyExpiresAt |-> NoDate, startedAt |-> NoDate, finishedAt |-> NoDate,
          submissions |-> <<>>, matchDuration |-> NoDate,
          hostReady |-> FALSE, opponentReady |-> FALSE]

\* A handler in flight: where it is, the document as loaded (or last saved),
\* the document as the handler has changed it since, and a loop counter.
Handler(pc, base, doc, i) == [pc |-> pc, base |-> base, doc |-> doc, i |-> i]

Idle == Handler("idle", NoDoc, NoDoc, 0)

\* A create-room handler: its position, the candidate roomId it drew last,
\* the candidates drawn so far and the problem asked for.
Creating(pc, roomId, attempts, problemId) ==
  [pc |-> pc, roomId |-> roomId, attempts |-> attempts, problemId |-> problemId]

NotCreating == Creating("idle", Null, 0, Null)

NoResponse == [result |-> "none", isWinner |-> FALSE, matchFinished |-> FALSE]

\* ------------------------------------------------------------------ schema
\* A new room document with the schema's defaults.
NewRoom(roomId, problemId, host, expires) ==
  [roomId |-> roomId, problemId |-> problemId, hostUserId |-> host,
   opponentUserId |-> Null, status |-> "waiting", winnerId |-> Null,
   lobbyExpiresAt |-> expires, startedAt |-> NoDate, finishedAt |-> NoDate,
   submissions |-> <<>>, matchDuration |-> NoDate,
   hostReady |-> FALSE, opponentReady |-> FALSE]

isValid(doc, t) ==
  IF doc.status = "expired" \/ doc.status = "finished" THEN FALSE
  ELSE IF doc.status = "waiting" /\ t > doc.lobbyExpiresAt THEN FALSE
  ELSE TRUE

isFull(doc) == doc.hostUserId # Null /\ doc.opponentUserId # Null

areBothReady(doc) == doc.hostReady /\ doc.opponentReady /\ isFull(doc)

\* A path of the stored document after save(): the handler's value if the
\* handler changed the path since it loaded (or last saved) the document,
\* the stored value otherwise.
SavedPath(stored, loaded, local, f) ==
  IF local[f] # loaded[f] THEN local[f] ELSE stored[f]

\* room.save() of an existing document: $set of the modified paths, $push of
\* the submissions pushed since the load.
Save(stored, loaded, local) ==
  [roomId |-> stored.roomId,
   problemId |-> stored.problemId,
   hostUserId |-> SavedPath(stored, loaded, local, "hostUserId"),
   opponentUserId |-> SavedPath(stored, loaded, local, "opponentUserId"),
   status |-> SavedPath(stored, loaded, local, "status"),
   winnerId |-> SavedPath(stored, loaded, local, "winnerId"),
   lobbyExpiresAt |-> SavedPath(stored, loaded, local, "lobbyExpiresAt"),
   startedAt |-> SavedPath(stored, loaded, local, "startedAt"),
   finishedAt |-> SavedPath(stored, loaded, local, "finishedAt"),
   submissions |-> stored.submissions \o
       SubSeq(local.submissions, Len(loaded.submissions) + 1, Len(local.submissions)),
   matchDuration |-> SavedPath(stored, loaded, local, "matchDuration"),
   hostReady |-> SavedPath(stored, loaded, local, "hostReady"),
   opponentReady |-> SavedPath(stored, loaded, local, "opponentReady")]

Exists(r) == r \in DOMAIN ChallengeRoom

\* Handlers and callbacks that have started and not yet returned.
InFlight ==
  Cardinality({u \in Users : proc[u].pc # "idle"})
    + (IF sweep.pc # "idle" THEN 1 ELSE 0)
    + (IF lobby.pc # "idle" THEN 1 ELSE 0)

\* The collection after the handler's document is saved.
Stored(r, loaded, local) ==
  [ChallengeRoom EXCEPT ![r] = Save(ChallengeRoom[r], loaded, local)]

TypeOK ==
  /\ DOMAIN ChallengeRoom \subseteq CandidateIds
  /\ DOMAIN roomTimers \subseteq CandidateIds
  /\ now >= 0
  /\ ticks \in 0..MaxTicks
  /\ nreq \in 0..MaxRequests

\* The server has started: no room, no handler, no timer.
Started ==
  /\ ChallengeRoom = [r \in {} |-> NoDoc]
  /\ proc = [u \in Users |-> Idle]
  /\ sweep = Idle
  /\ creating = [u \in Users |-> NotCreating]
  /\ timeouts = <<>>
  /\ lobby = Idle
  /\ roomTimers = [r \in {} |-> 0]
  /\ emitted = <<>>
  /\ rewards = 0
  /\ now = 0
  /\ ticks = 0
  /\ nreq = 0
  /\ response = [u \in Users |-> NoResponse]

\* A file of a temp directory, by its name.
File(base, ext) == [base |-> base, ext |-> ext]

NoFile == File("", "")

Sockets == {"s1", "s2"}

\* A run-code handler: its position, its socket, the language asked for and
\* the paths it has chosen.
Run(pc, socket, language, filePath, executablePath) ==
  [pc |-> pc, socket |-> socket, language |-> language, filePath |-> filePath,
   executablePath |-> executablePath]

NoRun == Run("idle", Null, Null, NoFile, NoFile)

\* The editor server has started and the sockets have connected.
EditorStarted ==
  /\ tmpdir = {}
  /\ activeProcesses = [x \in {} |-> 0]
  /\ children = <<>>
  /\ runs = [h \in 1..MaxHandlers |-> NoRun]
  /\ connected = Sockets

\* The code runner has run nothing and TEMP_DIR is empty.
SandboxStarted ==
  /\ tempDir = {}
  /\ uuids = 0
  /\ invocations = <<>>

Init ==
  /\ Started
  /\ SandboxStarted
  /\ EditorStarted
  /\ output = <<>>
  /\ processed = <<>>

\* ------------------------------------------------------------------ helpers
\* toString() of a path that populate() replaced by the user document: the
\* document's inspect string, not the id.
PopulatedToString(id) == "{ _id: " \o id \o " }"

toLowerCase(s) ==
  CASE s = "Easy" -> "easy"
    [] s = "Medium" -> "medium"
    [] s = "Hard" -> "hard"
    [] OTHER -> s

getTimeLimitForDifficulty(difficulty) ==
  CASE difficulty = "easy" -> 15 * 60
    [] difficulty = "medium" -> 30 * 60
    [] difficulty = "hard" -> 60 * 60
    [] OTHER -> 30 * 60

\* executeCode: one verdict per hidden test case, each passed or not.
Verdicts(n) == [1..n -> BOOLEAN]

\* testResults.filter(t => t.passed).length
RECURSIVE PassedCount(_)
PassedCount(testResults) ==
  IF testResults = <<>> THEN 0
  ELSE (IF Head(testResults) THEN 1 ELSE 0) + PassedCount(Tail(testResults))

\* testResults.every(result => result.passed)
RECURSIVE Every(_)
Every(testResults) ==
  IF testResults = <<>> THEN TRUE
  ELSE Head(testResults) /\ Every(Tail(testResults))

\* room.submissions.filter(s => s.userId.toString() === id)
RECURSIVE SubmissionsOf(_, _)
SubmissionsOf(submissions, id) ==
  IF submissions = <<>> THEN <<>>
  ELSE (IF Head(submissions).userId = id THEN <<Head(submissions)>> ELSE <<>>)
         \o SubmissionsOf(Tail(submissions), id)

\* submissions.reduce((best, current) => currentPassed > bestPassed ? current : best)
RECURSIVE Reduce(_, _)
Reduce(best, rest) ==
  IF rest = <<>> THEN best
  ELSE Reduce(IF PassedCount(Head(rest).testResults) > PassedCount(best.testResults)
                THEN Head(rest) ELSE best,
              Tail(rest))

\* getBestSubmission(..)?.testResults?.filter(t => t.passed).length || 0
BestScore(submissions) ==
  IF submissions = <<>> THEN 0
  ELSE PassedCount(Reduce(Head(submissions), Tail(submissions)).testResults)

\* Math.floor((later - earlier) / 1000)
DurationSeconds(later, earlier) == (later - earlier) \div 1000

\* ------------------------------------------------------------------ events
Event(name, countdown, winnerId, winType) ==
  [event |-> name, countdown |-> countdown, winnerId |-> winnerId, winType |-> winType]

\* io.to(roomId).emit(..)
Emit(e) == emitted' = Append(emitted, e)

\* ------------------------------------------------------------------ winner resolution
timeLimitOf(problemData) == getTimeLimitForDifficulty(toLowerCase(problemData.difficulty))

timeExpired(doc, problemData, t) ==
  DurationSeconds(t, doc.startedAt) >= timeLimitOf(problemData)

bothSubmitted(doc) == Len(doc.submissions) >= 2

shouldFinish(doc, problemData, t) == timeExpired(doc, problemData, t) \/ bothSubmitted(doc)

hostScore(doc) == BestScore(SubmissionsOf(doc.submissions, doc.hostUserId))

opponentScore(doc) == BestScore(SubmissionsOf(doc.submissions, doc.opponentUserId))

\* The local winnerId of checkAndDetermineWinner: Null is a tie.
partialWinner(doc) ==
  IF hostScore(doc) > opponentScore(doc) THEN doc.hostUserId
  ELSE IF opponentScore(doc) > hostScore(doc) THEN doc.opponentUserId
  ELSE Null

winnerType(winnerId) == IF winnerId # Null THEN "partial" ELSE "timeout"

\* The handler's document after checkAndDetermineWinner, up to its save.
checkAndDetermineWinner(doc, problemData, t) ==
  IF shouldFinish(doc, problemData, t) /\ doc.winnerId = Null
    THEN [doc EXCEPT
            !.status = "finished",
            !.finishedAt = t,
            !.matchDuration = IF timeExpired(doc, problemData, t)
                                THEN timeLimitOf(problemData)
                                ELSE DurationSeconds(t, doc.startedAt),
            !.winnerId = IF partialWinner(doc) # Null THEN partialWinner(doc) ELSE @]
    ELSE doc

\* ------------------------------------------------------------------ create
LobbyWindow == 5 * 60 * 1000

\* The candidates the loop of POST /rooms/create may draw.
MaxAttempts == 10

\* setLobbyTimer, called with timeUntilExpiry > 0: expireRoom is scheduled
\* and the timeout is registered under the roomId.
setTimeouts(r, expiryTime) ==
  Append(timeouts, [roomId |-> r, due |-> expiryTime, state |-> "pending"])

setRoomTimers(r) == (r :> Len(timeouts) + 1) @@ roomTimers

\* POST /rooms/create arrives and the problem is found.
CreateRoom(u, p) ==
  /\ creating[u].pc = "idle"
  /\ creating' = [creating EXCEPT ![u] = Creating("draw", Null, 0, p)]
  /\ UNCHANGED <<ChallengeRoom, proc, sweep, timeouts, lobby, roomTimers, emitted, rewards,
                 now, ticks, nreq, response, output, processed, sandboxVars, editorVars>>

\* One pass of the loop: generateRoomId draws a candidate and findOne looks
\* it up.  The loop ends when the candidate is free or was the tenth; ten
\* collisions fail the request.
CreateDraw(u, r) ==
  /\ creating[u].pc = "draw"
  /\ LET attempts == creating[u].attempts + 1
         roomExists == Exists(r)
         p == creating[u].problemId
     IN creating' = [creating EXCEPT ![u] =
          IF roomExists /\ attempts < MaxAttempts THEN Creating("draw", r, attempts, p)
          ELSE IF roomExists THEN Creating("failed", r, attempts, p)
          ELSE Creating("create", r, attempts, p)]
  /\ UNCHANGED <<ChallengeRoom, proc, sweep, timeouts, lobby, roomTimers, emitted, rewards,
                 now, ticks, nreq, response, output, processed, sandboxVars, editorVars>>

\* ChallengeRoom.create: the unique index on roomId refuses a roomId that
\* was taken since it was looked up, and the handler answers 500; otherwise
\* the room is stored waiting and setLobbyTimer registers its timeout.
CreateInsert(u) ==
  /\ creating[u].pc = "create"
  /\ LET r == creating[u].roomId
         p == creating[u].problemId
     IN IF Exists(r)
          THEN /\ creating' = [creating EXCEPT ![u] = Creating("error", r, @.attempts, p)]
               /\ UNCHANGED <<ChallengeRoom, timeouts, roomTimers>>
          ELSE /\ ChallengeRoom' = (r :> NewRoom(r, p, u, now + LobbyWindow)) @@ ChallengeRoom
               /\ timeouts' = setTimeouts(r, now + LobbyWindow)
               /\ roomTimers' = setRoomTimers(r)
               /\ creating' = [creating EXCEPT ![u] = Creating("created", r, @.attempts, p)]
  /\ UNCHANGED <<proc, sweep, lobby, emitted, rewards, now, ticks, nreq, response, output,
                 processed, sandboxVars, editorVars>>

\* A client request arrives and its findOne loads the room: the handler
\* runs up to its first save, or returns.
Request(u, r, handler) ==
  /\ nreq < MaxRequests
  /\ InFlight < MaxInFlight
  /\ proc[u].pc = "idle"
  /\ proc' = [proc EXCEPT ![u] = handler]
  /\ nreq' = nreq + 1
  /\ response' = [response EXCEPT ![u] = NoResponse]

\* ------------------------------------------------------------------ lobby timer
\* clearLobbyTimer: a registered timer is cancelled and its entry deleted.
\* clearLobbyTimer without its roomTimers.delete.
keptTimers(r) == roomTimers

clearedTimers(r) == [x \in DOMAIN roomTimers \ {r} |-> roomTimers[x]]

clearedLobbyTimer(ts, r) ==
  IF r \in DOMAIN roomTimers /\ ts[roomTimers[r]].state = "pending"
    THEN [ts EXCEPT ![roomTimers[r]].state = "cleared"]
    ELSE ts

\* ------------------------------------------------------------------ REST join
\* The handler's document at the end of POST /rooms/join.
restJoin(doc, u, t) ==
  IF ~isValid(doc, t)
    THEN IF t > doc.lobbyExpiresAt THEN [doc EXCEPT !.status = "expired"] ELSE doc
  ELSE IF isFull(doc) THEN doc
  ELSE IF doc.hostUserId = u THEN doc
  ELSE [doc EXCEPT !.opponentUserId = u, !.status = "starting"]

RestJoinRead(u, r) ==
  /\ Exists(r)
  /\ LET d == ChallengeRoom[r] IN
       Request(u, r, IF restJoin(d, u, now) # d
                       THEN Handler("rest-join", d, restJoin(d, u, now), 0)
                       ELSE Idle)
  /\ UNCHANGED <<creating, output, processed, sandboxVars, editorVars>>
  /\ UNCHANGED <<ChallengeRoom, sweep, timeouts, lobby, roomTimers, emitted, rewards, now,
                 ticks>>

RestJoinSave(u) ==
  /\ proc[u].pc = "rest-join"
  /\ ChallengeRoom' = Stored(proc[u].doc.roomId, proc[u].base, proc[u].doc)
  /\ proc' = [proc EXCEPT ![u] = Idle]
  /\ UNCHANGED <<creating, output, processed, sandboxVars, editorVars>>
  /\ UNCHANGED <<sweep, timeouts, lobby, roomTimers, emitted, rewards, now, ticks, nreq,
                 response>>

\* ------------------------------------------------------------------ socket join-room
\* join-room loads the room with hostUserId and opponentUserId populated.
socketIsParticipant(doc, u) ==
  \/ PopulatedToString(doc.hostUserId) = u
  \/ doc.opponentUserId # Null /\ PopulatedToString(doc.opponentUserId) = u

\* The caller is turned away with an error event.
socketJoinRejected(doc, u) ==
  /\ ~socketIsParticipant(doc, u)
  /\ ~(doc.status = "waiting" /\ doc.opponentUserId = Null)
  /\ doc.status \notin {"starting", "in_progress", "finished", "expired"}

\* The handler's document after the block that lets a caller in.
socketJoin(doc, u) ==
  IF ~socketIsParticipant(doc, u) /\ doc.status = "waiting" /\ doc.opponentUserId = Null
    THEN [doc EXCEPT !.opponentUserId = u, !.status = "starting"]
    ELSE doc

\* A participant's join finds the room waiting and full: the lobby timer is
\* cleared and the room is saved starting.
socketFills(doc, u) ==
  /\ ~socketJoinRejected(doc, u)
  /\ socketJoin(doc, u) = doc
  /\ doc.status = "waiting" /\ isFull(doc)

SocketJoinRead(u, r) ==
  /\ Exists(r)
  /\ LET d == ChallengeRoom[r] IN
       IF socketFills(d, u)
         THEN /\ Request(u, r, Handler("socket-join", d, [d EXCEPT !.status = "starting"], 1))
              /\ timeouts' = clearedLobbyTimer(timeouts, r)
              /\ roomTimers' = clearedTimers(r)
         ELSE /\ Request(u, r, IF socketJoin(d, u) # d
                                 THEN Handler("socket-join", d, socketJoin(d, u), 0)
                                 ELSE Idle)
              /\ UNCHANGED <<timeouts, roomTimers>>
  /\ UNCHANGED <<creating, output, processed, sandboxVars, editorVars>>
  /\ UNCHANGED <<ChallengeRoom, sweep, lobby, emitted, rewards, now, ticks>>

SocketJoinSave(u) ==
  /\ proc[u].pc = "socket-join"
  /\ ChallengeRoom' = Stored(proc[u].doc.roomId, proc[u].base, proc[u].doc)
  /\ IF proc[u].i = 1
       THEN Emit(Event("opponent-joined", 0, Null, "none"))
       ELSE UNCHANGED emitted
  /\ proc' = [proc EXCEPT ![u] = Idle]
  /\ UNCHANGED <<creating, output, processed, sandboxVars, editorVars>>
  /\ UNCHANGED <<sweep, timeouts, lobby, roomTimers, rewards, now, ticks, nreq, response>>

\* ------------------------------------------------------------------ ready
readyAccepted(doc, u) ==
  /\ doc.hostUserId = u \/ (doc.opponentUserId # Null /\ doc.opponentUserId = u)
  /\ isFull(doc)
  /\ doc.status = "starting"

\* The handler's document at the save of POST /rooms/:roomId/ready.
ready(doc, u) ==
  IF ~readyAccepted(doc, u) THEN doc
  ELSE IF doc.hostUserId = u THEN [doc EXCEPT !.hostReady = TRUE]
  ELSE [doc EXCEPT !.opponentReady = TRUE]

ReadyRead(u, r) ==
  /\ Exists(r)
  /\ LET d == ChallengeRoom[r] IN
       Request(u, r, IF readyAccepted(d, u) THEN Handler("ready", d, ready(d, u), 0) ELSE Idle)
  /\ UNCHANGED <<creating, output, processed, sandboxVars, editorVars>>
  /\ UNCHANGED <<ChallengeRoom, sweep, timeouts, lobby, roomTimers, emitted, rewards, now,
                 ticks>>

\* The flag is saved.  If the handler's document has both flags set,
\* startMatchFromReady starts the countdown: the first match-countdown event
\* is emitted and the handler sleeps.
ReadySave(u) ==
  /\ proc[u].pc = "ready"
  /\ ChallengeRoom' = Stored(proc[u].doc.roomId, proc[u].base, proc[u].doc)
  /\ IF areBothReady(proc[u].doc)
       THEN /\ Emit(Event("match-countdown", 3, Null, "none"))
            /\ proc' = [proc EXCEPT ![u] = Handler("countdown", proc[u].doc, proc[u].doc, 2)]
       ELSE /\ proc' = [proc EXCEPT ![u] = Idle]
            /\ UNCHANGED emitted
  /\ UNCHANGED <<creating, output, processed, sandboxVars, editorVars>>
  /\ UNCHANGED <<sweep, timeouts, lobby, roomTimers, rewards, now, ticks, nreq, response>>

\* startMatchCountdown: a sleep ends and the next pass of the loop emits.
CountdownTick(u) ==
  /\ proc[u].pc = "countdown"
  /\ proc[u].i > 0
  /\ Emit(Event("match-countdown", proc[u].i, Null, "none"))
  /\ proc' = [proc EXCEPT ![u].i = @ - 1]
  /\ UNCHANGED <<creating, output, processed, sandboxVars, editorVars>>
  /\ UNCHANGED <<ChallengeRoom, sweep, timeouts, lobby, roomTimers, rewards, now, ticks, nreq,
                 response>>

\* The handler's document after the loop of startMatchCountdown.
startMatch(doc, t) == [doc EXCEPT !.status = "in_progress", !.startedAt = t]

\* The last sleep ends: the room is saved in progress and match-started is
\* emitted.
StartMatch(u) ==
  /\ proc[u].pc = "countdown"
  /\ proc[u].i = 0
  /\ ChallengeRoom' = Stored(proc[u].doc.roomId, proc[u].base, startMatch(proc[u].doc, now))
  /\ Emit(Event("match-started", 0, Null, "none"))
  /\ proc' = [proc EXCEPT ![u] = Idle]
  /\ UNCHANGED <<creating, output, processed, sandboxVars, editorVars>>
  /\ UNCHANGED <<sweep, timeouts, lobby, roomTimers, rewards, now, ticks, nreq, response>>

\* ------------------------------------------------------------------ submit
\* The guards of POST /rooms/:roomId/submit, on the document just loaded.
submitAccepted(doc, u) ==
  /\ doc.status = "in_progress"
  /\ doc.hostUserId = u \/ doc.opponentUserId = u
  /\ doc.winnerId = Null
  /\ Problem[doc.problemId].hiddenTestCases # 0

resultOf(testResults) == IF Every(testResults) THEN "accepted" ELSE "rejected"

\* The handler's document at its first save: the submission is pushed and,
\* if it passed every test and the document has no winner, the match is won.
submit(doc, u, testResults, t) ==
  LET pushed == [doc EXCEPT !.submissions =
                   Append(@, [userId |-> u, result |-> resultOf(testResults),
                              testResults |-> testResults])]
  IN IF Every(testResults) /\ pushed.winnerId = Null
       THEN [pushed EXCEPT
               !.winnerId = u,
               !.status = "finished",
               !.finishedAt = t,
               !.matchDuration = IF pushed.startedAt # NoDate
                                   THEN DurationSeconds(t, pushed.startedAt)
                                   ELSE @]
       ELSE pushed

\* The handler took the winner branch.
wins(doc, testResults) == Every(testResults) /\ doc.winnerId = Null

\* res.json of the submit handler, from the handler's document.
submitResponse(doc, u) ==
  [result |-> doc.submissions[Len(doc.submissions)].result,
   isWinner |-> doc.winnerId # Null /\ doc.winnerId = u,
   matchFinished |-> doc.status = "finished"]

SubmitRead(u, r) ==
  /\ Exists(r)
  /\ LET d == ChallengeRoom[r] IN
       Request(u, r, IF submitAccepted(d, u) THEN Handler("grade", d, d, 0) ELSE Idle)
  /\ UNCHANGED <<creating, output, processed, sandboxVars, editorVars>>
  /\ UNCHANGED <<ChallengeRoom, sweep, timeouts, lobby, roomTimers, emitted, rewards, now,
                 ticks>>

\* executeCode returns testResults; the submission is pushed and saved.  On
\* the else branch checkAndDetermineWinner then runs on the handler's
\* document, up to its save.
SubmitSave(u, testResults) ==
  /\ proc[u].pc = "grade"
  /\ LET d == proc[u].doc
         local == submit(d, u, testResults, now)
         resolved == checkAndDetermineWinner(local, Problem[d.problemId], now)
     IN /\ ChallengeRoom' = Stored(d.roomId, d, local)
        /\ IF wins(d, testResults)
             THEN /\ proc' = [proc EXCEPT ![u] = Handler("won", local, local, 0)]
                  /\ UNCHANGED response
             ELSE IF resolved # local
               THEN /\ proc' = [proc EXCEPT ![u] = Handler("resolve", local, resolved, 0)]
                    /\ UNCHANGED response
               ELSE /\ proc' = [proc EXCEPT ![u] = Idle]
                    /\ response' = [response EXCEPT ![u] = submitResponse(local, u)]
  /\ UNCHANGED <<creating, output, processed, sandboxVars, editorVars>>
  /\ UNCHANGED <<sweep, timeouts, lobby, roomTimers, emitted, rewards, now, ticks, nreq>>

\* The save of checkAndDetermineWinner.
SubmitResolve(u) ==
  /\ proc[u].pc = "resolve"
  /\ ChallengeRoom' = Stored(proc[u].doc.roomId, proc[u].base, proc[u].doc)
  /\ proc' = [proc EXCEPT ![u] = Handler("resolved", proc[u].base, proc[u].doc, 0)]
  /\ UNCHANGED <<creating, output, processed, sandboxVars, editorVars>>
  /\ UNCHANGED <<sweep, timeouts, lobby, roomTimers, emitted, rewards, now, ticks, nreq,
                 response>>

\* After a save that finished the match: rewards, then notifyMatchFinished,
\* then the response.
SubmitNotify(u) ==
  /\ proc[u].pc \in {"won", "resolved"}
  /\ rewards' = rewards + 1
  /\ Emit(IF proc[u].pc = "won"
            THEN Event("match-finished", 0, u, "full")
            ELSE Event("match-finished", 0, proc[u].doc.winnerId,
                       winnerType(proc[u].doc.winnerId)))
  /\ response' = [response EXCEPT ![u] = submitResponse(proc[u].doc, u)]
  /\ proc' = [proc EXCEPT ![u] = Idle]
  /\ UNCHANGED <<creating, output, processed, sandboxVars, editorVars>>
  /\ UNCHANGED <<ChallengeRoom, sweep, timeouts, lobby, roomTimers, now, ticks, nreq>>

\* ------------------------------------------------------------------ timeout checker
\* One firing of the interval: find() loads the rooms in progress.
SweepFind(r) ==
  /\ sweep.pc = "idle"
  /\ InFlight < MaxInFlight
  /\ Exists(r)
  /\ ChallengeRoom[r].status = "in_progress"
  /\ ChallengeRoom[r].startedAt # NoDate
  /\ sweep' = Handler("check", ChallengeRoom[r], ChallengeRoom[r], 0)
  /\ UNCHANGED <<creating, output, processed, sandboxVars, editorVars>>
  /\ UNCHANGED <<ChallengeRoom, proc, timeouts, lobby, roomTimers, emitted, rewards, now,
                 ticks, nreq, response>>

\* The problem is loaded and checkAndDetermineWinner runs on the document
\* the sweep loaded, up to its save.
SweepCheck ==
  /\ sweep.pc = "check"
  /\ LET d == sweep.doc
         resolved == checkAndDetermineWinner(d, Problem[d.problemId], now)
     IN sweep' = IF resolved # d THEN Handler("resolve", d, resolved, 0) ELSE Idle
  /\ UNCHANGED <<creating, output, processed, sandboxVars, editorVars>>
  /\ UNCHANGED <<ChallengeRoom, proc, timeouts, lobby, roomTimers, emitted, rewards, now,
                 ticks, nreq, response>>

SweepResolve ==
  /\ sweep.pc = "resolve"
  /\ ChallengeRoom' = Stored(sweep.doc.roomId, sweep.base, sweep.doc)
  /\ sweep' = Handler("resolved", sweep.base, sweep.doc, 0)
  /\ UNCHANGED <<creating, output, processed, sandboxVars, editorVars>>
  /\ UNCHANGED <<proc, timeouts, lobby, roomTimers, emitted, rewards, now, ticks, nreq,
                 response>>

SweepNotify ==
  /\ sweep.pc = "resolved"
  /\ rewards' = rewards + 1
  /\ Emit(Event("match-finished", 0, sweep.doc.winnerId, winnerType(sweep.doc.winnerId)))
  /\ sweep' = Idle
  /\ UNCHANGED <<creating, output, processed, sandboxVars, editorVars>>
  /\ UNCHANGED <<ChallengeRoom, proc, timeouts, lobby, roomTimers, now, ticks, nreq,
                 response>>

\* ------------------------------------------------------------------ lobby expiry
\* The handler's document at the save of expireRoom.
expireRoom(doc) == IF doc.status = "waiting" THEN [doc EXCEPT !.status = "expired"] ELSE doc

\* The timeout set by setLobbyTimer fires: expireRoom loads the room and, if
\* it is not waiting, only clears the timer.
TimerFire(i) ==
  /\ timeouts[i].state = "pending"
  /\ now >= timeouts[i].due
  /\ InFlight < MaxInFlight
  /\ lobby.pc = "idle"
  /\ LET r == timeouts[i].roomId
         fired == [timeouts EXCEPT ![i].state = "fired"]
         d == ChallengeRoom[r]
     IN IF expireRoom(d) # d
          THEN /\ lobby' = Handler("expire", d, expireRoom(d), 0)
               /\ timeouts' = fired
               /\ UNCHANGED roomTimers
          ELSE /\ timeouts' = clearedLobbyTimer(fired, r)
               /\ roomTimers' = clearedTimers(r)
               /\ UNCHANGED lobby
  /\ UNCHANGED <<creating, output, processed, sandboxVars, editorVars>>
  /\ UNCHANGED <<ChallengeRoom, proc, sweep, emitted, rewards, now, ticks, nreq, response>>

\* The save of expireRoom, then room-expired and clearLobbyTimer.
ExpireSave ==
  /\ lobby.pc = "expire"
  /\ ChallengeRoom' = Stored(lobby.doc.roomId, lobby.base, lobby.doc)
  /\ Emit(Event("room-expired", 0, Null, "none"))
  /\ timeouts' = clearedLobbyTimer(timeouts, lobby.doc.roomId)
  /\ roomTimers' = clearedTimers(lobby.doc.roomId)
  /\ lobby' = Idle
  /\ UNCHANGED <<creating, output, processed, sandboxVars, editorVars>>
  /\ UNCHANGED <<proc, sweep, rewards, now, ticks, nreq, response>>

\* ------------------------------------------------------------------ clock
\* The instants at which a timer or a time limit of a stored room falls due,
\* and the first instant after the lobby window.
Deadlines ==
  UNION {{ChallengeRoom[r].lobbyExpiresAt, ChallengeRoom[r].lobbyExpiresAt + 1} \cup
         (IF ChallengeRoom[r].startedAt # NoDate
            THEN {ChallengeRoom[r].startedAt
                    + 1000 * timeLimitOf(Problem[ChallengeRoom[r].problemId])}
            ELSE {}) : r \in DOMAIN ChallengeRoom}

\* Time passes: by one quantum, or up to the next deadline.  The clock's
\* origin is the creation of the first room.
Tick ==
  /\ ticks < MaxTicks
  /\ DOMAIN ChallengeRoom # {}
  /\ \E t \in {now + Quantum} \cup {d \in Deadlines : d > now} : now' = t
  /\ ticks' = ticks + 1
  /\ UNCHANGED <<creating, output, processed, sandboxVars, editorVars>>
  /\ UNCHANGED <<ChallengeRoom, proc, sweep, timeouts, lobby, roomTimers, emitted, rewards,
                 nreq, response>>

\* ------------------------------------------------------------------ specification
Next ==
  \/ \E u \in Hosts, p \in ProblemIds : CreateRoom(u, p)
  \/ \E u \in Hosts, r \in RoomIds : CreateDraw(u, r)
  \/ \E u \in Hosts : CreateInsert(u)
  \/ \E u \in Users, r \in RoomIds : RestJoinRead(u, r)
  \/ \E u \in Users : RestJoinSave(u)
  \/ \E u \in Users, r \in RoomIds : SocketJoinRead(u, r)
  \/ \E u \in Users : SocketJoinSave(u)
  \/ \E u \in Users, r \in RoomIds : ReadyRead(u, r)
  \/ \E u \in Users : ReadySave(u)
  \/ \E u \in Users : CountdownTick(u)
  \/ \E u \in Users : StartMatch(u)
  \/ \E u \in Users, r \in RoomIds : SubmitRead(u, r)
  \/ \E u \in Users, testResults \in Verdicts(NumTests) : SubmitSave(u, testResults)
  \/ \E u \in Users : SubmitResolve(u)
  \/ \E u \in Users : SubmitNotify(u)
  \/ \E r \in RoomIds : SweepFind(r)
  \/ SweepCheck
  \/ SweepResolve
  \/ SweepNotify
  \/ \E i \in DOMAIN timeouts : TimerFire(i)
  \/ ExpireSave
  \/ Tick

Spec == Init /\ [][Next]_vars

\* The lobby alone: several users create rooms at once, the candidates of
\* generateRoomId may repeat, and the rooms are joined or expire.
LobbyNext ==
  \/ \E u \in Creators, p \in ProblemIds : CreateRoom(u, p)
  \/ \E u \in Creators, r \in CandidateIds : CreateDraw(u, r)
  \/ \E u \in Creators : CreateInsert(u)
  \/ \E u \in Guests, r \in CandidateIds : RestJoinRead(u, r)
  \/ \E u \in Guests : RestJoinSave(u)
  \/ \E u \in Guests, r \in CandidateIds : SocketJoinRead(u, r)
  \/ \E u \in Guests : SocketJoinSave(u)
  \/ \E i \in DOMAIN timeouts : TimerFire(i)
  \/ ExpireSave
  \/ Tick

LobbySpec == Init /\ [][LobbyNext]_vars

\* ------------------------------------------------------------------ output comparison
\* The characters of an output that the normalisation tells apart: a
\* printing character, a space, \n, \r and U+2028 (a line terminator to
\* the regular expressions, and whitespace, that no step replaces).
SP == " "
LF == "\n"
CR == "\r"
LS == "u2028"
Chars == {"a", SP, LF, CR, LS}
WhiteSpace == {SP, LF, CR, LS}
LineTerminator == {LF, CR, LS}

RECURSIVE SeqsUpTo(_)
SeqsUpTo(n) ==
  IF n = 0 THEN {<<>>}
  ELSE LET shorter == SeqsUpTo(n - 1)
       IN shorter \cup {Append(t, c) : t \in {x \in shorter : Len(x) = n - 1}, c \in Chars}

Texts == SeqsUpTo(MaxLen)

RECURSIVE trimStart(_)
trimStart(s) ==
  IF s # <<>> /\ s[1] \in WhiteSpace THEN trimStart(Tail(s)) ELSE s

RECURSIVE trimEnd(_)
trimEnd(s) ==
  IF s # <<>> /\ s[Len(s)] \in WhiteSpace THEN trimEnd(SubSeq(s, 1, Len(s) - 1)) ELSE s

\* String.prototype.trim
trim(s) == trimEnd(trimStart(s))

\* .replace(/\r\n/g, '\n')
RECURSIVE replaceCRLF(_)
replaceCRLF(s) ==
  IF s = <<>> THEN <<>>
  ELSE IF Len(s) >= 2 /\ s[1] = CR /\ s[2] = LF
    THEN <<LF>> \o replaceCRLF(SubSeq(s, 3, Len(s)))
  ELSE <<s[1]>> \o replaceCRLF(Tail(s))

\* .replace(/\r/g, '\n')
replaceCR(s) == [i \in DOMAIN s |-> IF s[i] = CR THEN LF ELSE s[i]]

\* .replace(/\n+$/g, ''): without the m flag $ is the end of the text.
RECURSIVE replaceTrailingNewlines(_)
replaceTrailingNewlines(s) ==
  IF s # <<>> /\ s[Len(s)] = LF
    THEN replaceTrailingNewlines(SubSeq(s, 1, Len(s) - 1))
    ELSE s

\* The ends k of the matches that a pattern of whitespace followed by $
\* (m flag: the end of the text or the position before a line terminator)
\* has at the start of s, the match being of at most `longest` characters.
MatchEnds(s, longest) ==
  {k \in 1..Len(s) :
     /\ k <= longest
     /\ \A i \in 1..k : s[i] \in WhiteSpace
     /\ (k = Len(s) \/ s[k + 1] \in LineTerminator)}

Greatest(S) == CHOOSE k \in S : \A x \in S : x <= k

\* .replace(/\s$/gm, ''): one whitespace character before each line end.
RECURSIVE replaceTrailingSpace(_)
replaceTrailingSpace(s) ==
  IF s = <<>> THEN <<>>
  ELSE IF MatchEnds(s, 1) # {}
    THEN replaceTrailingSpace(SubSeq(s, Greatest(MatchEnds(s, 1)) + 1, Len(s)))
  ELSE <<s[1]>> \o replaceTrailingSpace(Tail(s))

\* .replace(/\s+$/gm, ''): matches are sought left to right, each the
\* longest run of whitespace from its start that a line end follows, and
\* the search goes on behind the match.
RECURSIVE replaceTrailingSpaces(_)
replaceTrailingSpaces(s) ==
  IF s = <<>> THEN <<>>
  ELSE IF MatchEnds(s, Len(s)) # {}
    THEN replaceTrailingSpaces(SubSeq(s, Greatest(MatchEnds(s, Len(s))) + 1, Len(s)))
  ELSE <<s[1]>> \o replaceTrailingSpaces(Tail(s))

preprocessOutput(text) ==
  IF text = <<>> THEN <<>>
  ELSE replaceTrailingSpaces(replaceTrailingNewlines(replaceCR(replaceCRLF(trim(text)))))

\* The judge is handed some output.
JudgeInit ==
  /\ Started
  /\ SandboxStarted
  /\ EditorStarted
  /\ output \in Texts
  /\ processed = <<>>

\* preprocessOutput is applied to the output, then to what it returned.
Preprocess ==
  /\ Len(processed) < 2
  /\ processed' = Append(processed, preprocessOutput(IF processed = <<>> THEN output
                                                      ELSE processed[Len(processed)]))
  /\ UNCHANGED <<ChallengeRoom, creating, proc, sweep, timeouts, lobby, roomTimers, emitted,
                 rewards, now, ticks, nreq, response, output, sandboxVars, editorVars>>

JudgeSpec == JudgeInit /\ [][Preprocess]_vars

\* ------------------------------------------------------------------ code runner
\* The name crypto.randomUUID() returns on its n-th call.
Uuid(n) == "uuid-" \o ToString(n)

Languages == {"python", "java", "c", "cpp"}

\* What the runner's behaviour depends on in a submitted code: whether it
\* contains "public class Main", whether it declares a class besides Main
\* (a nested class Node), and whether the compiler accepts it.
Codes == [main : BOOLEAN, nested : BOOLEAN, compiles : BOOLEAN]

\* How the program ends on one test case.
Outcomes == {"passed", "wrong", "Runtime Error", "Time Limit Exceeded"}

sourceFile(language, uuid) ==
  IF language = "java" THEN File("Main", "java") ELSE File(Uuid(uuid), language)

filesToClean(language, uuid) ==
  IF language = "java" THEN {File("Main", "java"), File("Main", "class")}
  ELSE {File(Uuid(uuid), language), File(Uuid(uuid), "out")}

\* The files the compiler writes when it accepts the code.
compiledFiles(language, code, uuid) ==
  IF language = "java"
    THEN {File("Main", "class")} \cup (IF code.nested THEN {File("Main$Node", "class")} ELSE {})
    ELSE {File(Uuid(uuid), "out")}

\* What the second spawnSync of executeCompiled, or the spawnSync of
\* executeInterpreted, makes of the program's end.
executed(outcome) ==
  IF outcome \in {"Runtime Error", "Time Limit Exceeded"}
    THEN [error |-> outcome, passed |-> FALSE]
    ELSE [error |-> "none", passed |-> outcome = "passed"]

\* The finally block: every file of filesToClean that exists is unlinked,
\* and an unlink that throws (the files in `locked`) is logged and passed over.
cleaned(dir, files, locked) == dir \ (files \ locked)

\* executeCompiled, called with TEMP_DIR holding `dir`: its result, the
\* files it or its compiler wrote, what TEMP_DIR holds when it returns, and
\* how often it ran the compiler and the program.
executeCompiled(dir, uuid, language, code, outcome, locked) ==
  IF language = "java" /\ ~code.main
    THEN [result |-> [error |-> "Compilation Error", passed |-> FALSE],
          created |-> {}, left |-> dir, compiles |-> 0, executes |-> 0,
          artifact |-> {}]
  ELSE IF ~code.compiles
    THEN [result |-> [error |-> "Compilation Error", passed |-> FALSE],
          created |-> {sourceFile(language, uuid)},
          left |-> cleaned(dir \cup {sourceFile(language, uuid)},
                           filesToClean(language, uuid), locked),
          compiles |-> 1, executes |-> 0, artifact |-> {}]
  ELSE [result |-> executed(outcome),
        created |-> {sourceFile(language, uuid)} \cup compiledFiles(language, code, uuid),
        left |-> cleaned(dir \cup {sourceFile(language, uuid)}
                             \cup compiledFiles(language, code, uuid),
                         filesToClean(language, uuid), locked),
        compiles |-> 1, executes |-> 1,
        artifact |-> IF language = "java" THEN {File("Main", "class")}
                     ELSE {File(Uuid(uuid), "out")}]

\* executeInterpreted: the code is passed on the command line.
executeInterpreted(dir, outcome) ==
  [result |-> executed(outcome), created |-> {}, left |-> dir, compiles |-> 0,
   executes |-> 1, artifact |-> {}]

\* executeCode of routes/problem.js.
problemExecuteCode(dir, uuid, language, code, outcome, locked) ==
  IF language = "python" THEN executeInterpreted(dir, outcome)
  ELSE executeCompiled(dir, uuid, language, code, outcome, locked)

\* problem.sampleTestCases.map(executeTestCase), then the hidden ones: the
\* executeCode calls in order, each on the TEMP_DIR the one before left.
RECURSIVE executeTestCases(_, _, _, _, _, _)
executeTestCases(dir, uuid, language, code, outcomes, locked) ==
  IF outcomes = <<>> THEN <<>>
  ELSE LET one == problemExecuteCode(dir, uuid, language, code, Head(outcomes), locked)
       IN <<[language |-> language, code |-> code, outcome |-> Head(outcomes),
             locked |-> locked, before |-> dir, uuid |-> uuid] @@ one>>
            \o executeTestCases(one.left, uuid + 1, language, code, Tail(outcomes), locked)

\* POST /api/problems/run on a problem with NumTests test cases: from the
\* first executeTestCase to the last nothing is awaited.
RunTests(language, code, outcomes, locked) ==
  /\ uuids < MaxRuns * NumTests
  /\ LET calls == executeTestCases(tempDir, uuids + 1, language, code, outcomes, locked)
     IN /\ invocations' = calls
        /\ tempDir' = calls[Len(calls)].left
        /\ uuids' = uuids + Len(calls)
  /\ UNCHANGED <<ChallengeRoom, creating, proc, sweep, timeouts, lobby, roomTimers, emitted,
                 rewards, now, ticks, nreq, response, output, processed, editorVars>>

\* The files whose unlink may fail.
Lockable == {File("Main", "class")}

SandboxNext ==
  \E language \in Languages, code \in Codes, outcomes \in [1..NumTests -> Outcomes],
     locked \in SUBSET Lockable :
    RunTests(language, code, outcomes, locked)

SandboxSpec == Init /\ [][SandboxNext]_vars

\* ------------------------------------------------------------------ editor server
\* The languages of run-code that write files; 'c' takes the case of 'cpp'.
EditorLanguages == {"python", "cpp", "java"}

\* createTempFile: temp_<Date.now()><extension> in os.tmpdir().
createTempFile(extension, t) == File("temp_" \o ToString(t), extension)

\* path.join(os.tmpdir(), `temp_program_${Date.now()}`)
executablePathAt(t) == File("temp_program_" \o ToString(t), "")

MainJava == File("temp/Main", "java")
MainClass == File("temp/Main", "class")

\* activeProcesses.delete(socket.id)
deleted(s) == [x \in DOMAIN activeProcesses \ {s} |-> activeProcesses[x]]

\* child.kill(): a process that has not exited is signalled.
killed(c) ==
  IF children[c].state = "running" THEN [children EXCEPT ![c].state = "killed"] ELSE children

\* executeCodeInteractive up to its first await: the temp file is named
\* and its write begun; for java the directory is made first.
Begin(h, s, language) ==
  runs' = [runs EXCEPT ![h] =
    IF language = "python" THEN Run("write", s, language, createTempFile("py", now), NoFile)
    ELSE IF language = "cpp" THEN Run("write", s, language, createTempFile("cpp", now), NoFile)
    ELSE Run("mkdir", s, language, NoFile, NoFile)]

\* run-code arrives on a socket.  A registered process is killed and the
\* handler awaits the deletion of its file; without one it goes on into
\* executeCodeInteractive.
RunCode(h, s, language) ==
  /\ runs[h].pc = "idle"
  /\ \A g \in 1..(h - 1) : runs[g].pc # "idle"
  /\ s \in connected
  /\ nreq < MaxCommands
  /\ nreq' = nreq + 1
  /\ IF s \in DOMAIN activeProcesses
       THEN /\ children' = killed(activeProcesses[s])
            /\ runs' = [runs EXCEPT ![h] =
                 Run("unlink", s, language, children[activeProcesses[s]].filePath, NoFile)]
       ELSE /\ Begin(h, s, language)
            /\ UNCHANGED children
  /\ UNCHANGED <<tmpdir, activeProcesses, connected>>
  /\ UNCHANGED <<roomVars, now, ticks, output, processed, sandboxVars>>

\* deleteTempFile of the previous process's file is done: the registration
\* is deleted and executeCodeInteractive is entered.
RunUnlinked(h) ==
  /\ runs[h].pc = "unlink"
  /\ tmpdir' = tmpdir \ {runs[h].filePath}
  /\ activeProcesses' = deleted(runs[h].socket)
  /\ Begin(h, runs[h].socket, runs[h].language)
  /\ UNCHANGED <<children, connected>>
  /\ UNCHANGED <<roomVars, now, ticks, nreq, output, processed, sandboxVars>>

\* java: the directory exists; Main.java is written.
RunMkdir(h) ==
  /\ runs[h].pc = "mkdir"
  /\ runs' = [runs EXCEPT ![h] = Run("write", @.socket, @.language, MainJava, NoFile)]
  /\ UNCHANGED <<tmpdir, activeProcesses, children, connected>>
  /\ UNCHANGED <<roomVars, now, ticks, nreq, output, processed, sandboxVars>>

\* The source file is written.  python: the child is spawned and registered
\* and the handler returns.  cpp, java: exec is started.
RunWritten(h) ==
  /\ runs[h].pc = "write"
  /\ tmpdir' = tmpdir \cup {runs[h].filePath}
  /\ IF runs[h].language = "python"
       THEN /\ children' = Append(children, [socket |-> runs[h].socket,
                                             filePath |-> runs[h].filePath,
                                             state |-> "running"])
            /\ activeProcesses' = (runs[h].socket :> Len(children) + 1) @@ activeProcesses
            /\ runs' = [runs EXCEPT ![h] = NoRun]
       ELSE /\ runs' = [runs EXCEPT ![h] =
                 Run("exec", @.socket, @.language, @.filePath,
                     IF @.language = "cpp" THEN executablePathAt(now) ELSE MainClass)]
            /\ UNCHANGED <<children, activeProcesses>>
  /\ UNCHANGED connected
  /\ UNCHANGED <<roomVars, now, ticks, nreq, output, processed, sandboxVars>>

\* The callback of exec: the compiler and the program have ended; the
\* source and the executable or class file are deleted.
ExecDone(h) ==
  /\ runs[h].pc = "exec"
  /\ tmpdir' = tmpdir \ {runs[h].filePath, runs[h].executablePath}
  /\ runs' = [runs EXCEPT ![h] = NoRun]
  /\ UNCHANGED <<activeProcesses, children, connected>>
  /\ UNCHANGED <<roomVars, now, ticks, nreq, output, processed, sandboxVars>>

\* 'close' (or 'error') of a child: its file is deleted and the entry of
\* its socket is deleted from activeProcesses.
ChildClose(c) ==
  /\ children[c].state \in {"running", "killed"}
  /\ children' = [children EXCEPT ![c].state = "closed"]
  /\ tmpdir' = tmpdir \ {children[c].filePath}
  /\ activeProcesses' = deleted(children[c].socket)
  /\ UNCHANGED <<runs, connected>>
  /\ UNCHANGED <<roomVars, now, ticks, nreq, output, processed, sandboxVars>>

\* What stop-execution and disconnect do to a socket's registered process.
stopped(s) ==
  IF s \in DOMAIN activeProcesses
    THEN /\ children' = killed(activeProcesses[s])
         /\ tmpdir' = tmpdir \ {children[activeProcesses[s]].filePath}
         /\ activeProcesses' = deleted(s)
    ELSE UNCHANGED <<children, tmpdir, activeProcesses>>

StopExecution(s) ==
  /\ s \in connected
  /\ nreq < MaxCommands
  /\ nreq' = nreq + 1
  /\ stopped(s)
  /\ UNCHANGED <<runs, connected>>
  /\ UNCHANGED <<roomVars, now, ticks, output, processed, sandboxVars>>

Disconnect(s) ==
  /\ s \in connected
  /\ connected' = connected \ {s}
  /\ stopped(s)
  /\ UNCHANGED runs
  /\ UNCHANGED <<roomVars, now, ticks, nreq, output, processed, sandboxVars>>

\* A millisecond passes.
EditorTick ==
  /\ ticks < MaxTicks
  /\ now' = now + 1
  /\ ticks' = ticks + 1
  /\ UNCHANGED <<roomVars, nreq, output, processed, sandboxVars, editorVars>>

EditorNext ==
  \/ \E h \in 1..MaxHandlers, s \in Sockets, language \in EditorLanguages :
       RunCode(h, s, language)
  \/ \E h \in 1..MaxHandlers : RunUnlinked(h)
  \/ \E h \in 1..MaxHandlers : RunMkdir(h)
  \/ \E h \in 1..MaxHandlers : RunWritten(h)
  \/ \E h \in 1..MaxHandlers : ExecDone(h)
  \/ \E c \in DOMAIN children : ChildClose(c)
  \/ \E s \in Sockets : StopExecution(s)
  \/ \E s \in Sockets : Disconnect(s)
  \/ EditorTick

EditorSpec == Init /\ [][EditorNext]_vars

\* ------------------------------------------------------------------ responses
\* The texts a problem's hidden test cases may hold: the model's problems
\* differ in nothing else.
HiddenTexts == {"secret-a", "secret-b"}

hiddenTestCases(text) ==
  [i \in 1..NumTests |-> [input |-> text, expectedOutput |-> text]]

\* executeCode: one result per test case, from the test case and its verdict.
executeCode(testCases, verdict) ==
  [i \in DOMAIN testCases |->
     [testCaseIndex |-> i - 1,
      input |-> testCases[i].input,
      expectedOutput |-> testCases[i].expectedOutput,
      actualOutput |-> IF verdict[i] THEN testCases[i].expectedOutput ELSE "Wrong Answer",
      passed |-> verdict[i],
      isSample |-> i - 1 < 2]]

\* res.json of GET /rooms/:roomId.
getRoom(room, problemData, testCases) ==
  [roomId |-> room.roomId,
   problemId |-> room.problemId,
   problem |-> [difficulty |-> problemData.difficulty, testCases |-> testCases],
   host |-> room.hostUserId,
   opponent |-> room.opponentUserId,
   status |-> room.status,
   winner |-> room.winnerId,
   lobbyExpiresAt |-> room.lobbyExpiresAt,
   startedAt |-> room.startedAt,
   finishedAt |-> room.finishedAt,
   matchDuration |-> room.matchDuration]

\* res.json of POST /rooms/:roomId/submit, with the testResults it carries.
submitBody(doc, u, testResults) ==
  [result |-> submitResponse(doc, u).result,
   testResults |-> testResults,
   isWinner |-> submitResponse(doc, u).isWinner,
   matchFinished |-> submitResponse(doc, u).matchFinished]

\* ------------------------------------------------------------------ scheduling
\* A handler suspended at an await is resumed when the store answers, and a
\* timeout whose delay has passed runs its callback.
HandlerStep(u) ==
  \/ RestJoinSave(u) \/ SocketJoinSave(u) \/ ReadySave(u) \/ CountdownTick(u)
  \/ StartMatch(u) \/ (\E testResults \in Verdicts(NumTests) : SubmitSave(u, testResults))
  \/ SubmitResolve(u) \/ SubmitNotify(u)
  \/ (\E r \in RoomIds : CreateDraw(u, r)) \/ CreateInsert(u)

SweepStep == SweepCheck \/ SweepResolve \/ SweepNotify

TimerStep == (\E i \in DOMAIN timeouts : TimerFire(i)) \/ ExpireSave

Fairness ==
  /\ \A u \in Users : WF_vars(HandlerStep(u))
  /\ WF_vars(SweepStep)
  /\ WF_vars(TimerStep)

FairSpec == Spec /\ Fairness

\* The interval of startMatchTimeoutChecker keeps firing.
SweepFairness == WF_vars(\E r \in RoomIds : SweepFind(r))

SweepSpec == FairSpec /\ SweepFairness

\* -------------------------------------------------------------- properties
Rooms == DOMAIN ChallengeRoom

\* C1: when two accepted submissions race, the winner written first stays:
\* no submit handler that takes the winner branch replaces a stored winner.
C1_FirstWinnerStays ==
  [][\A r \in Rooms : \A u \in Users :
       (proc[u].pc = "grade" /\ proc'[u].pc = "won" /\ ChallengeRoom[r].winnerId # Null)
         => ChallengeRoom'[r].winnerId = ChallengeRoom[r].winnerId]_vars

\* C2: a room's stored status changes only along waiting -> starting,
\* waiting -> expired, starting -> in_progress and in_progress -> finished.
StatusEdges ==
  {<<"waiting", "starting">>, <<"waiting", "expired">>,
   <<"starting", "in_progress">>, <<"in_progress", "finished">>}

C2_StatusForwardOnly ==
  [][\A r \in Rooms :
       \/ ChallengeRoom'[r].status = ChallengeRoom[r].status
       \/ <<ChallengeRoom[r].status, ChallengeRoom'[r].status>> \in StatusEdges]_vars

\* C3: once a room is stored finished its stored winnerId never changes.
C3_WinnerFrozenOnceFinished ==
  [][\A r \in Rooms :
       ChallengeRoom[r].status = "finished"
         => ChallengeRoom'[r].winnerId = ChallengeRoom[r].winnerId]_vars

\* C4: once a room is stored finished or expired its submissions list never
\* grows.
C4_NoSubmissionAfterTerminal ==
  [][\A r \in Rooms :
       ChallengeRoom[r].status \in {"finished", "expired"}
         => ChallengeRoom'[r].submissions = ChallengeRoom[r].submissions]_vars

\* C5: a stored winnerId is unset or one of the room's two participants.
C5_WinnerIsParticipant ==
  \A r \in Rooms :
    ChallengeRoom[r].winnerId \in
      {Null, ChallengeRoom[r].hostUserId, ChallengeRoom[r].opponentUserId}

\* C6: a join (REST or socket) that loaded a room which is not waiting, or
\* has an opponent, or whose host is the caller, changes no stored field.
Joinable(doc, u) ==
  doc.status = "waiting" /\ doc.opponentUserId = Null /\ doc.hostUserId # u

C6_RejectedJoinChangesNothing ==
  [][\A u \in Users :
       (proc[u].pc \in {"rest-join", "socket-join"} /\ proc'[u].pc = "idle"
          /\ ~Joinable(proc[u].base, u))
         => ChallengeRoom' = ChallengeRoom]_vars

\* C7: a ready call for a participant whose flag is already set changes no
\* stored field and emits nothing (it starts no second countdown).
ReadyFlag(doc, u) == IF doc.hostUserId = u THEN doc.hostReady ELSE doc.opponentReady

C7_ReadyTwiceIsOnce ==
  [][\A u \in Users :
       (proc[u].pc = "ready" /\ proc'[u].pc # "ready" /\ ReadyFlag(proc[u].base, u))
         => (ChallengeRoom' = ChallengeRoom /\ emitted' = emitted
               /\ proc'[u].pc = "idle")]_vars

\* C8: the match-countdown and match-started events emitted for the room are
\* always a prefix of 3, 2, 1, match-started, and the room is in progress
\* with startedAt set only after the three countdown events.
IsStartEvent(e) == e.event \in {"match-countdown", "match-started"}

StartSequence ==
  <<Event("match-countdown", 3, Null, "none"), Event("match-countdown", 2, Null, "none"),
    Event("match-countdown", 1, Null, "none"), Event("match-started", 0, Null, "none")>>

C8_CountdownOnce ==
  LET started == SelectSeq(emitted, IsStartEvent) IN
    /\ Len(started) <= Len(StartSequence)
    /\ started = SubSeq(StartSequence, 1, Len(started))
    /\ \A r \in Rooms :
         ChallengeRoom[r].status = "in_progress"
           => (Len(started) >= 3 /\ ChallengeRoom[r].startedAt # NoDate)

\* C9: a submission saved to a stored in_progress room without a winner is
\* stored accepted exactly when every test case passed; when it is, the room
\* is stored finished with the submitter as winnerId, finishedAt set and
\* matchDuration the whole seconds between the stored startedAt and
\* finishedAt, and the response reports isWinner and matchFinished.
AllPassed(testResults) == \A i \in DOMAIN testResults : testResults[i]

WholeSecondsBetween(seconds, earlier, later) ==
  1000 * seconds <= later - earlier /\ later - earlier < 1000 * (seconds + 1)

Last(seq) == seq[Len(seq)]

C9_AcceptedSubmissionWins ==
  [][\A u \in Users :
       /\ (/\ proc[u].pc = "grade" /\ proc'[u].pc # "grade"
           /\ ChallengeRoom[proc[u].doc.roomId].status = "in_progress"
           /\ ChallengeRoom[proc[u].doc.roomId].winnerId = Null)
            => LET room == ChallengeRoom'[proc[u].doc.roomId]
                   submission == Last(room.submissions)
               IN /\ submission.userId = u
                  /\ submission.result = "accepted" <=> AllPassed(submission.testResults)
                  /\ AllPassed(submission.testResults)
                       => /\ room.status = "finished"
                          /\ room.winnerId = u
                          /\ room.finishedAt = now
                          /\ WholeSecondsBetween(room.matchDuration, room.startedAt,
                                                 room.finishedAt)
                          /\ proc'[u].pc = "won"
       /\ (proc[u].pc = "won" /\ proc'[u].pc = "idle")
            => (response'[u].isWinner /\ response'[u].matchFinished)]_vars

\* C10: when a resolution is saved to a stored in_progress room that has no
\* winner and no accepted submission, the room becomes finished and winnerId
\* is the participant whose largest passed count over the room's submissions
\* is strictly larger, or stays unset when the two are equal; the outcome
\* kind announced is partial with a winner and timeout without.
PassedCounts(submissions, id) ==
  {PassedCount(submissions[i].testResults) :
     i \in {j \in DOMAIN submissions : submissions[j].userId = id}}

LargestPassed(submissions, id) ==
  IF PassedCounts(submissions, id) = {} THEN 0
  ELSE CHOOSE n \in PassedCounts(submissions, id) :
         \A m \in PassedCounts(submissions, id) : m <= n

NoAcceptance(doc) == \A i \in DOMAIN doc.submissions : doc.submissions[i].result # "accepted"

ResolvedAsClaimed(before, after) ==
  LET hostBest == LargestPassed(after.submissions, after.hostUserId)
      opponentBest == LargestPassed(after.submissions, after.opponentUserId)
  IN (before.status = "in_progress" /\ before.winnerId = Null /\ NoAcceptance(before))
       => /\ after.status = "finished"
          /\ after.winnerId = IF hostBest > opponentBest THEN after.hostUserId
                               ELSE IF opponentBest > hostBest THEN after.opponentUserId
                               ELSE Null

AnnouncedAsClaimed(handler) ==
  /\ emitted' = Append(emitted, Last(emitted'))
  /\ Last(emitted').event = "match-finished"
  /\ Last(emitted').winnerId = handler.doc.winnerId
  /\ Last(emitted').winType = IF handler.doc.winnerId # Null THEN "partial" ELSE "timeout"

C10_PartialResolution ==
  [][/\ \A u \in Users :
          /\ (proc[u].pc = "resolve" /\ proc'[u].pc = "resolved")
               => ResolvedAsClaimed(ChallengeRoom[proc[u].doc.roomId],
                                    ChallengeRoom'[proc[u].doc.roomId])
          /\ (proc[u].pc = "resolved" /\ proc'[u].pc = "idle")
               => AnnouncedAsClaimed(proc[u])
     /\ (sweep.pc = "resolve" /\ sweep'.pc = "resolved")
          => ResolvedAsClaimed(ChallengeRoom[sweep.doc.roomId],
                               ChallengeRoom'[sweep.doc.roomId])
     /\ (sweep.pc = "resolved" /\ sweep'.pc = "idle") => AnnouncedAsClaimed(sweep)]_vars

\* C11: a rejected submission leaves the stored room in_progress without a
\* winner, and the submit handler finishes the room afterwards only if the
\* time limit has elapsed since startedAt or each of the two participants
\* has a submission in the room.
HasSubmission(room, id) ==
  \E i \in DOMAIN room.submissions : room.submissions[i].userId = id

TimeLimitElapsed(room, t) ==
  room.startedAt # NoDate
    /\ t - room.startedAt >= 1000 * getTimeLimitForDifficulty("easy")

Unresolved(room) == room.status = "in_progress" /\ room.winnerId = Null

C11_RejectedKeepsInProgress ==
  [][\A u \in Users :
       /\ (/\ proc[u].pc = "grade" /\ proc'[u].pc # "grade"
           /\ Unresolved(ChallengeRoom[proc[u].doc.roomId])
           /\ Last(ChallengeRoom'[proc[u].doc.roomId].submissions).result = "rejected")
            => Unresolved(ChallengeRoom'[proc[u].doc.roomId])
       /\ (/\ proc[u].pc = "resolve" /\ proc'[u].pc = "resolved"
           /\ Unresolved(ChallengeRoom[proc[u].doc.roomId]))
            => LET room == ChallengeRoom[proc[u].doc.roomId]
               IN \/ TimeLimitElapsed(room, now)
                  \/ /\ HasSubmission(room, room.hostUserId)
                     /\ HasSubmission(room, room.opponentUserId)]_vars

\* C12: once lobbyExpiresAt is reached with the room still waiting, without
\* an opponent and with no join in progress, the room eventually is and
\* stays expired without opponent or winner, and room-expired has been
\* emitted.
JoinInProgress == \E u \in Users : proc[u].pc \in {"rest-join", "socket-join"}

LobbyClosedEmpty(r) ==
  /\ Exists(r)
  /\ now >= ChallengeRoom[r].lobbyExpiresAt
  /\ ChallengeRoom[r].status = "waiting"
  /\ ChallengeRoom[r].opponentUserId = Null
  /\ ~JoinInProgress

WasEmitted(name) == \E i \in DOMAIN emitted : emitted[i].event = name

ExpiredEmpty(r) ==
  /\ Exists(r)
  /\ ChallengeRoom[r].status = "expired"
  /\ ChallengeRoom[r].opponentUserId = Null
  /\ ChallengeRoom[r].winnerId = Null
  /\ WasEmitted("room-expired")

C12_EmptyLobbyExpires ==
  \A r \in RoomIds : LobbyClosedEmpty(r) ~> [] ExpiredEmpty(r)

\* C13: every stored room agrees with its status: waiting has no opponent;
\* starting and in_progress have host and opponent; in_progress has
\* startedAt and is entered only with both ready flags true; finished has
\* finishedAt; expired has neither opponent nor winner.
StatusShape(room) ==
  /\ room.status = "waiting" => room.opponentUserId = Null
  /\ room.status \in {"starting", "in_progress"}
       => (room.hostUserId # Null /\ room.opponentUserId # Null)
  /\ room.status = "in_progress" => room.startedAt # NoDate
  /\ room.status = "finished" => room.finishedAt # NoDate
  /\ room.status = "expired" => (room.opponentUserId = Null /\ room.winnerId = Null)

C13_StatusShape ==
  [][\A r \in DOMAIN ChallengeRoom' :
       /\ StatusShape(ChallengeRoom'[r])
       /\ (r \in Rooms /\ ChallengeRoom[r].status # "in_progress"
             /\ ChallengeRoom'[r].status = "in_progress")
            => (ChallengeRoom'[r].hostReady /\ ChallengeRoom'[r].opponentReady)]_vars

\* C14: a ready request goes on to its save only if the caller is the stored
\* room's host or opponent, the room has both participants and its status is
\* starting; its save changes nothing of the stored room but the ready flag
\* of the caller's own role.
OtherThanFlags(room) == [room EXCEPT !.hostReady = FALSE, !.opponentReady = FALSE]

C14_ReadyGuards ==
  [][\A u \in Users :
       /\ (proc[u].pc = "idle" /\ proc'[u].pc = "ready")
            => LET room == ChallengeRoom[proc'[u].doc.roomId]
               IN /\ u \in {room.hostUserId, room.opponentUserId}
                  /\ room.hostUserId # Null /\ room.opponentUserId # Null
                  /\ room.status = "starting"
       /\ (proc[u].pc = "ready" /\ proc'[u].pc # "ready")
            => LET before == ChallengeRoom[proc[u].doc.roomId]
                   after == ChallengeRoom'[proc[u].doc.roomId]
               IN /\ OtherThanFlags(after) = OtherThanFlags(before)
                  /\ after.hostReady # before.hostReady => before.hostUserId = u
                  /\ after.opponentReady # before.opponentReady
                       => before.opponentUserId = u]_vars

\* C15: the response of the status query does not depend on the texts of the
\* problem's hidden test cases, and the response of a submit depends on them
\* only through the per-case pass/fail flags.
C15_NoHiddenLeak ==
  \A a, b \in HiddenTexts :
    /\ \A r \in Rooms :
         getRoom(ChallengeRoom[r], Problem[ChallengeRoom[r].problemId], hiddenTestCases(a))
           = getRoom(ChallengeRoom[r], Problem[ChallengeRoom[r].problemId],
                     hiddenTestCases(b))
    /\ \A u \in Users : \A verdict \in Verdicts(NumTests) :
         proc[u].pc = "grade"
           => submitBody(submit(proc[u].doc, u, verdict, now), u,
                         executeCode(hiddenTestCases(a), verdict))
                = submitBody(submit(proc[u].doc, u, verdict, now), u,
                             executeCode(hiddenTestCases(b), verdict))

\* The create-room handler of u ended in this step.
CreateEnds(u) ==
  /\ creating[u].pc \in {"draw", "create"}
  /\ creating'[u].pc \in {"created", "failed", "error"}

\* C16: createRoom draws at most 10 candidates and leaves the loop at the
\* first one absent from the store; after 10 collisions it fails and stores
\* no room and schedules no timer; in every other case it ends having
\* stored exactly one waiting room, under the roomId it found absent, with
\* its lobby timer scheduled.
C16_BoundedRetryCreatesOne ==
  [][\A u \in Users :
       /\ creating'[u].attempts <= MaxAttempts
       /\ (creating[u].pc = "draw" /\ creating'[u] # creating[u])
            => /\ creating'[u].attempts = creating[u].attempts + 1
               /\ creating'[u].roomId \notin DOMAIN ChallengeRoom
                    => creating'[u].pc = "create"
               /\ creating'[u].pc = "create"
                    => creating'[u].roomId \notin DOMAIN ChallengeRoom
       /\ CreateEnds(u)
            => IF creating'[u].pc = "failed"
                 THEN /\ creating'[u].attempts = MaxAttempts
                      /\ ChallengeRoom' = ChallengeRoom
                      /\ timeouts' = timeouts /\ roomTimers' = roomTimers
                 ELSE LET r == creating[u].roomId
                      IN /\ r \notin DOMAIN ChallengeRoom
                         /\ DOMAIN ChallengeRoom' = DOMAIN ChallengeRoom \cup {r}
                         /\ ChallengeRoom'[r].status = "waiting"
                         /\ ChallengeRoom'[r].hostUserId = u
                         /\ Len(timeouts') = Len(timeouts) + 1]_vars

\* C17: the normalisation is idempotent: applied to its own result it
\* returns that result.
C17_PreprocessIdempotent ==
  Len(processed) = 2 => processed[2] = processed[1]

\* An output with a carriage return, whose normalisation dropped characters
\* and kept a line break, has been normalised twice.
C17_NormalisedTwice ==
  /\ Len(processed) = 2
  /\ \E i \in DOMAIN output : output[i] = CR
  /\ \E i \in DOMAIN processed[1] : processed[1][i] = LF
  /\ Len(processed[1]) < Len(output)

\* The room's timeouts that are scheduled and neither fired nor cleared.
PendingTimeouts(ts, r) == {i \in DOMAIN ts : ts[i].roomId = r /\ ts[i].state = "pending"}

\* C18: the step that stores a waiting room as starting also clears the
\* room's lobby timeout and removes its registry entry, and the expiry
\* callback of a room never runs once the room has an opponent.
C18_FillCancelsLobbyTimer ==
  [][\A r \in DOMAIN ChallengeRoom :
       /\ (ChallengeRoom[r].status = "waiting" /\ ChallengeRoom'[r].status = "starting")
            => /\ r \notin DOMAIN roomTimers'
               /\ PendingTimeouts(timeouts', r) = {}
       /\ \A i \in PendingTimeouts(timeouts, r) :
            timeouts'[i].state = "fired" => ChallengeRoom[r].opponentUserId = Null]_vars

\* C19: whichever way the expiry callback and a join of the same waiting
\* room interleave, the stored room is as after one of their two orders:
\* expired without an opponent, or starting with one; the save of the
\* callback never stores the room expired with an opponent and never turns
\* a starting room expired.
C19_ExpiryJoinSerial ==
  [][lobby.pc = "expire" /\ lobby'.pc = "idle"
       => LET r == lobby.doc.roomId
          IN /\ ChallengeRoom'[r].status = "expired"
                  => ChallengeRoom'[r].opponentUserId = Null
             /\ ChallengeRoom[r].status = "starting"
                  => ChallengeRoom'[r].status # "expired"]_vars

\* The room's timeouts whose callback has been started.
FiredTimeouts(r) == {i \in DOMAIN timeouts : timeouts[i].roomId = r /\ timeouts[i].state = "fired"}

\* Every timeout that is scheduled and neither fired nor cleared is the one
\* the registry holds under its roomId; so a room has at most one.
PendingAreRegistered ==
  \A r \in CandidateIds :
    /\ Cardinality(PendingTimeouts(timeouts, r)) <= 1
    /\ \A i \in PendingTimeouts(timeouts, r) : r \in DOMAIN roomTimers /\ roomTimers[r] = i

\* The expireRoom callback of the room's timeout is running.
Expiring(r) == lobby.pc = "expire" /\ lobby.doc.roomId = r

TimedOut(r) ==
  /\ Exists(r)
  /\ ChallengeRoom[r].status = "in_progress"
  /\ timeExpired(ChallengeRoom[r], Problem[ChallengeRoom[r].problemId], now)

\* The room is stored in progress with its clock started anew, the time
\* limit not yet elapsed.
Restarted(r) ==
  /\ Exists(r)
  /\ ChallengeRoom[r].status = "in_progress"
  /\ ~timeExpired(ChallengeRoom[r], Problem[ChallengeRoom[r].problemId], now)

\* C21: a room in progress whose time limit has elapsed is eventually
\* stored finished, the sweep firing again and again (or its startedAt is
\* set anew, and the time limit runs from there).
C21_TimedOutRoomFinishes ==
  \A r \in RoomIds :
    TimedOut(r) ~> ((Exists(r) /\ ChallengeRoom[r].status = "finished") \/ Restarted(r))

\* What a resolution writes of a room.
Outcome(room) ==
  [status |-> room.status, winnerId |-> room.winnerId, finishedAt |-> room.finishedAt,
   matchDuration |-> room.matchDuration]

\* C22: when the sweep comes to a room that is stored finished, be it one
\* that was finished after the sweep loaded it, the sweep goes on without
\* writing the room's status, winnerId, finishedAt or matchDuration and
\* without a match-finished event.
C22_SweepSkipsFinished ==
  [][(/\ sweep.pc \in {"check", "resolve"}
      /\ sweep' # sweep
      /\ ChallengeRoom[sweep.doc.roomId].status = "finished")
       => /\ Outcome(ChallengeRoom'[sweep.doc.roomId]) = Outcome(ChallengeRoom[sweep.doc.roomId])
          /\ emitted' = emitted
          /\ sweep'.pc = "idle"]_vars

\* The room is stored starting with the ready flags of both participants.
BothReadyStored(r) ==
  /\ Exists(r)
  /\ ChallengeRoom[r].status = "starting"
  /\ ChallengeRoom[r].hostReady /\ ChallengeRoom[r].opponentReady

\* C23: once the host and the opponent of a starting room have both called
\* ready, however the two handlers interleaved, the countdown is started
\* and the room becomes in_progress.
C23_BothReadyStarts ==
  \A r \in RoomIds :
    BothReadyStored(r)
      ~> (/\ Exists(r) /\ ChallengeRoom[r].status = "in_progress"
          /\ WasEmitted("match-countdown"))

\* The events that announce a join to the sockets of the room.
JoinEvents == {"opponent-joined", "player-joined"}

\* C24: when a room is stored starting with its second participant, an
\* event announcing the join is, or has been, broadcast to the room.
C24_JoinIsAnnounced ==
  \A r \in RoomIds :
    (Exists(r) /\ ChallengeRoom[r].status = "starting" /\ isFull(ChallengeRoom[r]))
      ~> (\E name \in JoinEvents : WasEmitted(name))

\* C25: when executeCompiled has returned, by whichever path, no file that
\* the invocation or its compiler wrote is left in TEMP_DIR, save one whose
\* unlink failed, and the result is the one it returns when no unlink fails.
C25_NoArtifactLeft ==
  \A i \in DOMAIN invocations :
    LET call == invocations[i]
    IN call.language # "python"
         => /\ call.created \cap call.left \subseteq call.locked
            /\ call.result = executeCompiled(call.before, call.uuid, call.language,
                                             call.code, call.outcome, {}).result

\* The sum of a field over the calls.
RECURSIVE Total(_, _)
Total(calls, field) ==
  IF calls = <<>> THEN 0 ELSE calls[1][field] + Total(Tail(calls), field)

\* C27: a run over n test cases in a compiled language invokes the compiler
\* once; if the compiler fails no test case is executed and all verdicts
\* are failed with the compile error; if it succeeds, one artifact is run
\* once per test case.
C27_CompileOnce ==
  (invocations # <<>> /\ invocations[1].language # "python")
    => /\ Total(invocations, "compiles") = 1
       /\ \A i \in DOMAIN invocations :
            IF invocations[1].result.error = "Compilation Error"
              THEN /\ invocations[i].executes = 0
                   /\ invocations[i].result = invocations[1].result
              ELSE /\ invocations[i].executes = 1
                   /\ invocations[i].artifact = invocations[1].artifact


\* The paths a run-code handler has chosen for its files.
Paths(run) == {run.filePath, run.executablePath} \ {NoFile}

\* The executions under way: the handlers writing or running a program,
\* by their paths, and the children still running, by their files.
Executing ==
  {<<"run", h>> : h \in {g \in 1..MaxHandlers : runs[g].pc \in {"write", "exec"}}}
    \cup {<<"child", c>> : c \in {d \in DOMAIN children : children[d].state = "running"}}

PathsOf(e) == IF e[1] = "run" THEN Paths(runs[e[2]]) ELSE {children[e[2]].filePath}

\* C26: two executions of the editor's run-code handler that overlap in
\* time never use the same source or artifact path.
C26_UniquePaths ==
  \A e, f \in Executing : e # f => PathsOf(e) \cap PathsOf(f) = {}


\* The socket's registered process is the child c.
Registered(c) ==
  /\ children[c].socket \in DOMAIN activeProcesses
  /\ activeProcesses[children[c].socket] = c

\* C30: a process started by run-code is registered for its socket for as
\* long as it is running, so that stop-execution, send-input and disconnect
\* reach it; the close event of an earlier process does not remove it.
C30_RunningIsRegistered ==
  \A c \in DOMAIN children : children[c].state = "running" => Registered(c)


\* The match-finished events emitted so far.
MatchFinishedEvents == {i \in DOMAIN emitted : emitted[i].event = "match-finished"}

\* C28: over any interleaving of submit handlers and sweeps, the room is
\* resolved at most once: at most one match-finished event is emitted and
\* the match rewards are awarded at most once.
C28_ResolvedOnce ==
  /\ Cardinality(MatchFinishedEvents) <= 1
  /\ rewards <= 1


\* C29: no room changes from waiting to starting after its lobbyExpiresAt
\* has passed, by the REST join or by the socket join-room event.
C29_NoJoinAfterExpiry ==
  [][\A r \in RoomIds :
       (/\ Exists(r)
        /\ ChallengeRoom[r].status = "waiting"
        /\ ChallengeRoom'[r].status = "starting")
         => now <= ChallengeRoom[r].lobbyExpiresAt]_vars

====
